---- MODULE Spec2Model ----
(***************************************************************************)
(* Model of ha_client.py: the Home Assistant REST client.                  *)
(*                                                                         *)
(* Python strings are sequences of one-character strings, so that          *)
(* lower(), split(), sorted() and the similarity ratio are computed the    *)
(* way the code computes them.  A dict is a function; a missing key is a   *)
(* key outside its DOMAIN, and reading it is a KeyError.                   *)
(***************************************************************************)
EXTENDS Integers, Sequences, FiniteSets, TLC

(***************************************************************************)
(* Bounds of the model.                                                    *)
(***************************************************************************)
\* longest catalog the server answers with
MaxCatalog == 2

(***************************************************************************)
(* Program constants.                                                      *)
(***************************************************************************)
\* TIMEOUT = 10
TIMEOUT == 10
\* best_score = 50: "require a score above 50%"
InitialBestScore == 50

(***************************************************************************)
(* Strings.                                                                *)
(***************************************************************************)
\* code points of the characters the model's strings are made of
Ord(c) ==
    CASE c = " " -> 32  [] c = "." -> 46  [] c = "0" -> 48  [] c = "1" -> 49
      [] c = "2" -> 50  [] c = "8" -> 56  [] c = "A" -> 65  [] c = "C" -> 67
      [] c = "W" -> 87  [] c = "_" -> 95  [] c = "a" -> 97  [] c = "b" -> 98
      [] c = "c" -> 99  [] c = "d" -> 100 [] c = "e" -> 101 [] c = "f" -> 102
      [] c = "g" -> 103 [] c = "h" -> 104 [] c = "i" -> 105 [] c = "k" -> 107
      [] c = "l" -> 108 [] c = "m" -> 109 [] c = "n" -> 110 [] c = "o" -> 111
      [] c = "r" -> 114 [] c = "s" -> 115 [] c = "t" -> 116 [] c = "w" -> 119
      [] c = "z" -> 122

\* the lower-case form of a character
LowerChar(c) ==
    CASE c = "A" -> "a" [] c = "C" -> "c" [] c = "W" -> "w" [] OTHER -> c

IsUpper(c) == Ord(c) >= 65 /\ Ord(c) <= 90
IsLowerCh(c) == Ord(c) >= 97 /\ Ord(c) <= 122
IsDigit(c) == Ord(c) >= 48 /\ Ord(c) <= 57
\* the regular expression class \w: letters, digits and the underscore
IsWordChar(c) == IsUpper(c) \/ IsLowerCh(c) \/ IsDigit(c) \/ c = "_"
IsSpace(c) == c = " "

\* str.lower()
lower(s) == [i \in 1..Len(s) |-> LowerChar(s[i])]

\* fuzzywuzzy utils.asciidammit: characters above 127 are dropped
asciidammit(s) == SelectSeq(s, LAMBDA c : Ord(c) < 128)

\* StringProcessor.replace_non_letters_non_numbers_with_whitespace: \W -> " "
replace_non_letters_non_numbers_with_whitespace(s) ==
    [i \in 1..Len(s) |-> IF IsWordChar(s[i]) THEN s[i] ELSE " "]

RECURSIVE lstrip(_)
lstrip(s) == IF s # <<>> /\ IsSpace(Head(s)) THEN lstrip(Tail(s)) ELSE s

RECURSIVE rstrip(_)
rstrip(s) ==
    IF s # <<>> /\ IsSpace(s[Len(s)]) THEN rstrip(SubSeq(s, 1, Len(s) - 1)) ELSE s

\* str.strip()
strip(s) == rstrip(lstrip(s))

\* fuzzywuzzy utils.full_process(s, force_ascii=True)
full_process(s) ==
    strip(lower(replace_non_letters_non_numbers_with_whitespace(asciidammit(s))))

\* str.split(): the maximal runs of non-whitespace, in order
RECURSIVE SplitFrom(_, _, _)
SplitFrom(s, cur, acc) ==
    IF s = <<>>
    THEN IF cur = <<>> THEN acc ELSE Append(acc, cur)
    ELSE IF IsSpace(Head(s))
         THEN SplitFrom(Tail(s), <<>>, IF cur = <<>> THEN acc ELSE Append(acc, cur))
         ELSE SplitFrom(Tail(s), Append(cur, Head(s)), acc)

split(s) == SplitFrom(s, <<>>, <<>>)

\* Python's str <: lexicographic on code points, a proper prefix is smaller
RECURSIVE StrLess(_, _)
StrLess(a, b) ==
    IF b = <<>> THEN FALSE
    ELSE IF a = <<>> THEN TRUE
    ELSE IF Ord(Head(a)) # Ord(Head(b)) THEN Ord(Head(a)) < Ord(Head(b))
    ELSE StrLess(Tail(a), Tail(b))

\* insert a token into a sorted list, after the tokens equal to it
RECURSIVE InsertSorted(_, _)
InsertSorted(t, ts) ==
    IF ts = <<>> THEN <<t>>
    ELSE IF StrLess(t, Head(ts)) THEN <<t>> \o ts
    ELSE <<Head(ts)>> \o InsertSorted(t, Tail(ts))

\* sorted(tokens)
RECURSIVE sorted(_)
sorted(ts) == IF ts = <<>> THEN <<>> ELSE InsertSorted(ts[Len(ts)], sorted(SubSeq(ts, 1, Len(ts) - 1)))

\* u" ".join(tokens)
RECURSIVE join(_)
join(ts) ==
    IF ts = <<>> THEN <<>>
    ELSE IF Len(ts) = 1 THEN Head(ts)
    ELSE Head(ts) \o <<" ">> \o join(Tail(ts))

\* fuzzywuzzy fuzz._process_and_sort(s, force_ascii, full_process=True)
process_and_sort(s) == strip(join(sorted(split(full_process(s)))))

(***************************************************************************)
(* difflib.SequenceMatcher(None, a, b): no junk, autojunk on.              *)
(***************************************************************************)
\* __chain_b: when b has 200 elements or more, those found in it more than
\* len(b) // 100 + 1 times are popular and are taken out of b2j
Popular(b) ==
    IF Len(b) >= 200
    THEN {c \in {b[j] : j \in 1..Len(b)} :
            Cardinality({j \in 1..Len(b) : b[j] = c}) > Len(b) \div 100 + 1}
    ELSE {}

\* length of the common run of a from i and b from j, inside a[..ahi],
\* b[..bhi], that stops before an element of out
RECURSIVE RunLen(_, _, _, _, _, _, _)
RunLen(a, b, out, i, j, ahi, bhi) ==
    IF i > ahi \/ j > bhi THEN 0
    ELSE IF a[i] # b[j] \/ a[i] \in out THEN 0
    ELSE 1 + RunLen(a, b, out, i + 1, j + 1, ahi, bhi)

\* length of the common run of a back from i and b back from j, inside
\* a[alo..], b[blo..]
RECURSIVE BackLen(_, _, _, _, _, _)
BackLen(a, b, i, j, alo, blo) ==
    IF i < alo \/ j < blo THEN 0
    ELSE IF a[i] # b[j] THEN 0
    ELSE 1 + BackLen(a, b, i - 1, j - 1, alo, blo)

SetMax(S) == CHOOSE x \in S : \A y \in S : y <= x
SetMin(S) == CHOOSE x \in S : \A y \in S : x <= y

\* find_longest_match(alo, ahi, blo, bhi) on 1-based inclusive ranges: the
\* longest block without popular elements, the earliest in a among the
\* longest, then the earliest in b (an empty block at alo, blo when there is
\* none), extended to its left and then to its right by the elements that
\* match, popular or not
find_longest_match(a, b, popular, alo, ahi, blo, bhi) ==
    LET k == SetMax({0} \cup {RunLen(a, b, popular, x, y, ahi, bhi) :
                                x \in alo..ahi, y \in blo..bhi})
        i == IF k = 0 THEN alo
             ELSE SetMin({x \in alo..ahi :
                            \E y \in blo..bhi : RunLen(a, b, popular, x, y, ahi, bhi) = k})
        j == IF k = 0 THEN blo
             ELSE SetMin({y \in blo..bhi : RunLen(a, b, popular, i, y, ahi, bhi) = k})
        l == BackLen(a, b, i - 1, j - 1, alo, blo)
        r == RunLen(a, b, {}, i + k, j + k, ahi, bhi)
    IN <<i - l, j - l, k + l + r>>

\* get_matching_blocks: the matched characters, summed over the longest
\* block and, recursively, the pieces to its left and to its right
RECURSIVE Matches(_, _, _, _, _, _, _)
Matches(a, b, popular, alo, ahi, blo, bhi) ==
    IF alo > ahi \/ blo > bhi THEN 0
    ELSE LET m == find_longest_match(a, b, popular, alo, ahi, blo, bhi)
         IN IF m[3] = 0 THEN 0
            ELSE m[3] + Matches(a, b, popular, alo, m[1] - 1, blo, m[2] - 1)
                      + Matches(a, b, popular, m[1] + m[3], ahi, m[2] + m[3], bhi)

\* 100 * (2.0 * m / t) is computed in floating point, in two roundings.
\* When 200 * m / t is q + 1/2 the quotient (2 * q + 1) / 200 has no exact
\* float unless its denominator is 8, and the product falls on q + 1/2
\* except for these q, where it falls just above it, or just below
FloatAboveHalf == {3, 27, 54, 55}
FloatBelowHalf == {14, 28, 56, 57}

\* int(round(100 * (2.0 * m / t))): away from a half the float is on the
\* side of the exact quotient; round() takes a float that is exactly a half
\* to the even integer
intr(m, t) ==
    LET q == (200 * m) \div t
        r == (200 * m) % t
    IN IF 2 * r < t THEN q
       ELSE IF 2 * r > t THEN q + 1
       ELSE IF q \in FloatAboveHalf THEN q + 1
       ELSE IF q \in FloatBelowHalf THEN q
       ELSE IF q % 2 = 0 THEN q ELSE q + 1

\* fuzz.ratio under check_for_equivalence and check_empty_string
ratio(s1, s2) ==
    IF s1 = s2 THEN 100
    ELSE IF Len(s1) = 0 \/ Len(s2) = 0 THEN 0
    ELSE intr(Matches(s1, s2, Popular(s2), 1, Len(s1), 1, Len(s2)), Len(s1) + Len(s2))

\* fuzz.token_sort_ratio(s1, s2)
token_sort_ratio(s1, s2) == ratio(process_and_sort(s1), process_and_sort(s2))


(***************************************************************************)
(* Python values.                                                          *)
(***************************************************************************)
\* None, and a value that is not None
None == <<>>
Some(x) == <<x>>

\* d has the key k: d[k] raises no KeyError
Has(d, k) == k \in DOMAIN d

\* a or b, for booleans
PyOr(a, b) == IF a THEN a ELSE b

\* s.startswith(prefix)
startswith(s, prefix) ==
    Len(s) >= Len(prefix) /\ SubSeq(s, 1, Len(prefix)) = prefix

\* s.split(".")[0]: the part before the first "."
RECURSIVE SplitDotFirst(_)
SplitDotFirst(s) ==
    IF s = <<>> \/ Head(s) = "." THEN <<>> ELSE <<Head(s)>> \o SplitDotFirst(Tail(s))

(***************************************************************************)
(* The inputs: what the server answers and what the caller passes.         *)
(***************************************************************************)
LightDot == <<"l", "i", "g", "h", "t", ".">>
IdLightAb == LightDot \o <<"a", "b">>
IdLightM == LightDot \o <<"m">>
IdLightZz == LightDot \o <<"z", "z">>
IdSensorT == <<"s", "e", "n", "s", "o", "r", ".", "t">>
DomLight == <<"l", "i", "g", "h", "t">>
DomSensor == <<"s", "e", "n", "s", "o", "r">>

\* a lamp whose friendly name is the utterance "ab" but for its case
Lamp ==
    [entity_id |-> IdLightAb, state |-> <<"o", "n">>,
     attributes |-> [friendly_name |-> <<"A", "b">>, brightness |-> <<"8", "0">>]]
\* a second record with the same id and name: no brightness, a unit
LampUnit ==
    [entity_id |-> IdLightAb, state |-> <<"o", "f", "f">>,
     attributes |-> [friendly_name |-> <<"A", "b">>, unit_of_measurement |-> <<"W">>]]
\* a sensor with a unit, whose name scores 57 against "ab"
Sensor ==
    [entity_id |-> IdSensorT, state |-> <<"2", "1">>,
     attributes |-> [friendly_name |-> <<"a", "b", " ", "c", "d">>,
                     unit_of_measurement |-> <<"C">>]]
\* a sensor without a unit, whose name scores exactly 50 against "ab"
SensorHalf ==
    [entity_id |-> IdSensorT, state |-> <<"0">>,
     attributes |-> [friendly_name |-> <<"a", "b", "c", "d", "e", "f">>]]
\* records that lack a field
NoState ==
    [entity_id |-> IdLightM, attributes |-> [friendly_name |-> <<"a", "b">>]]
NoName ==
    [entity_id |-> IdLightM, state |-> <<"o", "n">>,
     attributes |-> [brightness |-> <<"1", "0">>]]
NoAttributes == [entity_id |-> IdLightM, state |-> <<"o", "n">>]
NoEntityId ==
    [state |-> <<"o", "n">>, attributes |-> [friendly_name |-> <<"a", "b">>]]

Records ==
    {Lamp, LampUnit, Sensor, SensorHalf, NoState, NoName, NoAttributes, NoEntityId}

\* the bodies of GET /api/states: lists of records, in the server's order
Catalogs == UNION {[1..n -> Records] : n \in 0..MaxCatalog}

\* the utterances passed to find_entity
Utterances == {<<"a", "b">>, <<"l", "i", "g", "h", "t", " ", "a", "b">>}
\* the sets of allowed domains passed to find_entity
TypeSets == {{}, {DomLight}, {DomLight, DomSensor}}
\* the ids passed to find_entity_attr
EntityIds == {IdLightAb, IdLightM, IdSensorT, IdLightZz}

\* the constructor's config: ssl and verify
Configs == [ssl : BOOLEAN, verify : BOOLEAN]

\* requests raises these from get()/post() before any response exists
TransportErrors == {"Timeout", "ConnectionError"}
\* the status codes of the last answer of an exchange: 304 is a 3xx answer
\* without a Location, which requests hands to the caller
StatusCodes == {200, 304, 404, 500}
\* requests.exceptions: Timeout, ConnectionError, HTTPError, TooManyRedirects
\* and (from requests 2.27 on) JSONDecodeError are subclasses of
\* RequestException
RequestExceptions ==
    {"Timeout", "ConnectionError", "HTTPError", "TooManyRedirects", "JSONDecodeError"}

\* requests follows a 3xx answer with a Location (allow_redirects is left at
\* its default): the statuses of the redirects it may be given, one that
\* turns a POST into a GET and one that keeps it
RedirectStatuses == {302, 307}
\* the redirects followed before the last answer, as their statuses in order
RedirectChains == {<<>>} \cup {<<s>> : s \in RedirectStatuses}
\* requests.models.DEFAULT_REDIRECT_LIMIT: after that many redirects the
\* session raises TooManyRedirects
DEFAULT_REDIRECT_LIMIT == 30
\* where the server's Location sends the client
LocationScheme == "http"
LocationPath == <<"api", "states2">>
\* a server that redirects every request
EndlessRedirects == {[i \in 1..DEFAULT_REDIRECT_LIMIT |-> s] : s \in RedirectStatuses}

\* a body that is not JSON, such as the empty body of a 304 or of an error
NotJson == None

\* what the network does with one get()/post(): after some redirects an
\* exception, or a last answer with its status and body; or redirects for
\* ever
NetworkOutcomes(bodies) ==
    [kind : {"exception"}, error : TransportErrors, status : {0}, body : {NotJson},
     redirects : RedirectChains]
      \cup [kind : {"exception"}, error : {"TooManyRedirects"}, status : {0},
            body : {NotJson}, redirects : EndlessRedirects]
      \cup [kind : {"response"}, status : StatusCodes \ {200}, error : {""},
            body : {NotJson}, redirects : RedirectChains]
      \cup [kind : {"response"}, status : {200}, error : {""},
            body : bodies \cup {NotJson}, redirects : RedirectChains]

\* the network's part of an outcome: all but the body, of which it keeps
\* whether it is JSON
Reply(net) ==
    [kind |-> net.kind, error |-> net.error, status |-> net.status,
     redirects |-> Len(net.redirects), json |-> net.body # NotJson]
NoReply == [kind |-> "none", error |-> "", status |-> 0, redirects |-> 0, json |-> FALSE]

\* the verify= default of requests when the argument is not passed
RequestsDefaultVerify == TRUE

(***************************************************************************)
(* State.                                                                  *)
(***************************************************************************)
VARIABLES
    config,       \* the config dict given to __init__
    self,         \* the client's fields: ssl, verify, url (its scheme)
    pc,           \* "idle", "scan" (inside find_entity's loop), "done"
    op,           \* the method running or just finished
    entity,       \* find_entity's and find_entity_attr's first argument
    types,        \* find_entity's allowed domains
    json_data,    \* what _get_state returned
    idx,          \* find_entity: the index of the next record of the loop
    best_score,   \* find_entity's best_score
    best_entity,  \* find_entity's best_entity: None or Some(candidate)
    examined,     \* find_entity: the indexes the loop body ran on, in order
    skipped,      \* find_entity: the indexes whose KeyError was passed over
    requests,     \* the HTTP requests issued by the running call, in order
    reply,        \* what the network did with the call's request
    outcome,      \* "none", "return" or "raise"
    ret,          \* the value returned
    error         \* the exception raised to the caller

vars == <<config, self, pc, op, entity, types, json_data, idx, best_score,
          best_entity, examined, skipped, requests, reply, outcome, ret, error>>

(***************************************************************************)
(* __init__                                                                *)
(***************************************************************************)
\* self.ssl = config['ssl'] or False; self.verify = config['verify'] or True;
\* self.url starts with https:// when self.ssl, with http:// otherwise
NewClient(c) ==
    LET ssl == PyOr(c.ssl, FALSE)
    IN [ssl |-> ssl,
        verify |-> PyOr(c.verify, TRUE),
        url |-> IF ssl THEN "https" ELSE "http"]

Init ==
    /\ config \in Configs
    /\ self = NewClient(config)
    /\ pc = "idle"
    /\ op = "none"
    /\ entity = <<>>
    /\ types = {}
    /\ json_data = None
    /\ idx = 1
    /\ best_score = InitialBestScore
    /\ best_entity = None
    /\ examined = <<>>
    /\ skipped = <<>>
    /\ requests = <<>>
    /\ reply = NoReply
    /\ outcome = "none"
    /\ ret = None
    /\ error = ""

(***************************************************************************)
(* The HTTP layer.                                                         *)
(***************************************************************************)
\* the request a method builds: with self.ssl it passes verify=self.verify,
\* without it no verify argument
HttpRequest(client, method, path, data) ==
    [method |-> method, scheme |-> client.url, path |-> path, data |-> data,
     verify |-> IF client.ssl THEN client.verify ELSE RequestsDefaultVerify,
     timeout |-> TIMEOUT]

\* req.raise_for_status(): an HTTPError for a 4xx or 5xx status
raise_for_status(status) == status >= 400 /\ status < 600

\* one get()/post() followed by raise_for_status(): the exception raised,
\* or "" and the body as received
Exchange(net) ==
    IF net.kind = "exception" THEN [error |-> net.error, body |-> NotJson]
    ELSE IF raise_for_status(net.status) THEN [error |-> "HTTPError", body |-> NotJson]
    ELSE [error |-> "", body |-> net.body]

\* req.json() on what Exchange gave: a JSONDecodeError for a body that is
\* not JSON, the decoded value otherwise
Json(x) ==
    IF x.error # "" THEN x
    ELSE IF x.body = NotJson THEN [error |-> "JSONDecodeError", body |-> NotJson]
    ELSE x

\* _get_state: get, raise_for_status, return req.json()
get_state(net) == Json(Exchange(net))

\* _get_state's request
GetStateRequest(client) == HttpRequest(client, "GET", <<"api", "states">>, None)

\* if json_data: an empty list is false
Truthy(data) == Len(data) > 0

\* Session.rebuild_method: a 303 and a 302 turn every method but HEAD into
\* GET, a 301 turns POST into GET; 307 and 308 keep the method
rebuild_method(method, status) ==
    IF status \in {302, 303} /\ method # "HEAD" THEN "GET"
    ELSE IF status = 301 /\ method = "POST" THEN "GET"
    ELSE method

\* the request requests sends after a redirect: to the Location, with the
\* verify and timeout of the call, and without the body unless the status
\* is 307 or 308
Redirected(req, status) ==
    [req EXCEPT !.method = rebuild_method(req.method, status),
                !.scheme = LocationScheme, !.path = LocationPath,
                !.data = IF status \in {307, 308} THEN req.data ELSE None]

\* a request and those that follow it through a chain of redirects
RECURSIVE Follow(_, _)
Follow(req, chain) ==
    IF chain = <<>> THEN <<req>>
    ELSE <<req>> \o Follow(Redirected(req, Head(chain)), Tail(chain))

\* Issued with a fault: a failed get() or post() is made a second time
IssuedWithRetry(req, net) ==
    LET once == Follow(req, net.redirects)
    IN IF net.kind = "exception" \/ raise_for_status(net.status)
       THEN once \o once ELSE once

\* the requests one call puts on the wire: those of its one get() or post(),
\* which are the request built and one more for each redirect followed;
\* whatever becomes of it, it is not made again
Issued(req, net) == Follow(req, net.redirects)

(***************************************************************************)
(* find_entity                                                             *)
(***************************************************************************)
\* the dict built for best_entity
Candidate(state, score) ==
    [id |-> state.entity_id,
     dev_name |-> state.attributes.friendly_name,
     state |-> state.state,
     best_score |-> score,
     attributes |-> state.attributes]

\* UpdateBest with a fault: >= in place of >
UpdateBestOrEqual(acc, state, score) ==
    IF score >= acc.best_score
    THEN IF Has(state, "state")
         THEN [best_score |-> score, best_entity |-> Some(Candidate(state, score)),
               raised |-> FALSE]
         ELSE [best_score |-> score, best_entity |-> acc.best_entity, raised |-> TRUE]
    ELSE acc

\* if score > best_score: best_score = score; best_entity = {...}.
\* best_score is assigned first; the dict then reads state['state'], and its
\* KeyError leaves best_entity as it was
UpdateBest(acc, state, score) ==
    IF score > acc.best_score
    THEN IF Has(state, "state")
         THEN [best_score |-> score, best_entity |-> Some(Candidate(state, score)),
               raised |-> FALSE]
         ELSE [best_score |-> score, best_entity |-> acc.best_entity, raised |-> TRUE]
    ELSE acc

\* ScanRecord with a fault: the test of the domain is left out
ScanRecordAnyDomain(acc, state, ent, tps) ==
    IF ~Has(state, "entity_id") THEN [acc EXCEPT !.raised = TRUE]
    ELSE IF ~Has(state, "attributes") \/ ~Has(state.attributes, "friendly_name")
         THEN [acc EXCEPT !.raised = TRUE]
    ELSE LET byName == UpdateBest(acc, state,
                          token_sort_ratio(ent, lower(state.attributes.friendly_name)))
         IN IF byName.raised THEN byName
            ELSE UpdateBest(byName, state, token_sort_ratio(ent, lower(state.entity_id)))

\* the body of the for loop, with its try ... except KeyError: pass.
\* acc is [best_score, best_entity, raised]; raised says a KeyError was caught
ScanRecord(acc, state, ent, tps) ==
    IF ~Has(state, "entity_id") THEN [acc EXCEPT !.raised = TRUE]
    ELSE IF SplitDotFirst(state.entity_id) \notin tps THEN acc
    ELSE IF ~Has(state, "attributes") \/ ~Has(state.attributes, "friendly_name")
         THEN [acc EXCEPT !.raised = TRUE]
    ELSE LET byName == UpdateBest(acc, state,
                          token_sort_ratio(ent, lower(state.attributes.friendly_name)))
         IN IF byName.raised THEN byName
            ELSE UpdateBest(byName, state, token_sort_ratio(ent, lower(state.entity_id)))

\* NextIndex with a fault: the try is around the loop, a KeyError ends it
NextIndexTryAroundLoop(i, raised, n) == IF raised THEN n + 1 ELSE i + 1

\* the for loop goes on with the next record, also after a caught KeyError:
\* the try is inside the loop
NextIndex(i, raised, n) == i + 1

\* find_entity up to the loop: json_data = self._get_state(); best_score = 50;
\* best_entity = None.  An exception of _get_state goes to the caller.
FindEntityCall ==
    /\ pc = "idle"
    /\ \E e \in Utterances, t \in TypeSets, net \in NetworkOutcomes({Some(c) : c \in Catalogs}) :
        LET req == GetStateRequest(self)
            x == get_state(net)
        IN /\ op' = "find_entity"
           /\ entity' = e
           /\ types' = t
           /\ requests' = Issued(req, net)
           /\ reply' = Reply(net)
           /\ best_score' = InitialBestScore
           /\ best_entity' = None
           /\ idx' = 1
           /\ examined' = <<>>
           /\ skipped' = <<>>
           /\ IF x.error # ""
              THEN /\ pc' = "done"
                   /\ outcome' = "raise"
                   /\ error' = x.error
                   /\ json_data' = None
              ELSE /\ pc' = "scan"
                   /\ outcome' = "none"
                   /\ error' = ""
                   /\ json_data' = x.body[1]
           /\ UNCHANGED <<config, self, ret>>

\* one turn of the for loop
FindEntityStep ==
    /\ pc = "scan"
    /\ Truthy(json_data)
    /\ idx <= Len(json_data)
    /\ LET acc == ScanRecord([best_score |-> best_score, best_entity |-> best_entity,
                              raised |-> FALSE], json_data[idx], entity, types)
       IN /\ best_score' = acc.best_score
          /\ best_entity' = acc.best_entity
          /\ examined' = Append(examined, idx)
          /\ skipped' = IF acc.raised THEN Append(skipped, idx) ELSE skipped
          /\ idx' = NextIndex(idx, acc.raised, Len(json_data))
    /\ UNCHANGED <<config, self, pc, op, entity, types, json_data, requests,
                   reply, outcome, ret, error>>

\* return best_entity
FindEntityReturn ==
    /\ pc = "scan"
    /\ ~Truthy(json_data) \/ idx > Len(json_data)
    /\ pc' = "done"
    /\ outcome' = "return"
    /\ ret' = Some(best_entity)
    /\ UNCHANGED <<config, self, op, entity, types, json_data, idx, best_score,
                   best_entity, examined, skipped, requests, reply, error>>

(***************************************************************************)
(* find_entity_attr                                                        *)
(***************************************************************************)
\* UnitMeasure with a fault: unit_of_measurement for lights too
UnitMeasureNoLight(attr) ==
    IF Has(attr.attributes, "unit_of_measurement")
    THEN attr.attributes.unit_of_measurement ELSE <<>>

\* the try block: brightness for an id that starts with 'light.',
\* unit_of_measurement otherwise; "" on a KeyError
UnitMeasure(attr) ==
    IF startswith(attr.entity_id, LightDot)
    THEN IF Has(attr.attributes, "brightness") THEN attr.attributes.brightness ELSE <<>>
    ELSE IF Has(attr.attributes, "unit_of_measurement")
         THEN attr.attributes.unit_of_measurement ELSE <<>>

\* the body of "if attr['entity_id'] == entity": attr['attributes'],
\* entity_attrs['friendly_name'] and attr['state'] are read outside any try
AttrSummary(attr) ==
    IF ~Has(attr, "attributes") THEN [error |-> "KeyError", ret |-> None]
    ELSE IF ~Has(attr.attributes, "friendly_name") THEN [error |-> "KeyError", ret |-> None]
    ELSE IF ~Has(attr, "state") THEN [error |-> "KeyError", ret |-> None]
    ELSE [error |-> "",
          ret |-> Some([unit_measure |-> UnitMeasure(attr),
                        name |-> attr.attributes.friendly_name,
                        state |-> attr.state])]

\* AttrScan with a fault: a record without entity_id is passed over
RECURSIVE AttrScanSkipping(_, _, _)
AttrScanSkipping(data, ent, i) ==
    IF i > Len(data) THEN [error |-> "", ret |-> None]
    ELSE IF ~Has(data[i], "entity_id") THEN AttrScanSkipping(data, ent, i + 1)
    ELSE IF data[i].entity_id = ent THEN AttrSummary(data[i])
    ELSE AttrScanSkipping(data, ent, i + 1)

\* the for loop from record i on: attr['entity_id'] is read outside any try;
\* the first record with the id returns; return None after the loop
RECURSIVE AttrScan(_, _, _)
AttrScan(data, ent, i) ==
    IF i > Len(data) THEN [error |-> "", ret |-> None]
    ELSE IF ~Has(data[i], "entity_id") THEN [error |-> "KeyError", ret |-> None]
    ELSE IF data[i].entity_id = ent THEN AttrSummary(data[i])
    ELSE AttrScan(data, ent, i + 1)

\* find_entity_attr on the fetched list
find_entity_attr(data, ent) ==
    IF Truthy(data) THEN AttrScan(data, ent, 1) ELSE [error |-> "", ret |-> None]

FindEntityAttr ==
    /\ pc = "idle"
    /\ \E e \in EntityIds, net \in NetworkOutcomes({Some(c) : c \in Catalogs}) :
        LET req == GetStateRequest(self)
            x == get_state(net)
            r == find_entity_attr(x.body[1], e)
        IN /\ pc' = "done"
           /\ op' = "find_entity_attr"
           /\ entity' = e
           /\ requests' = Issued(req, net)
           /\ reply' = Reply(net)
           /\ IF x.error # ""
              THEN /\ outcome' = "raise"
                   /\ error' = x.error
                   /\ json_data' = None
                   /\ ret' = None
              ELSE /\ json_data' = x.body[1]
                   /\ outcome' = IF r.error # "" THEN "raise" ELSE "return"
                   /\ error' = r.error
                   /\ ret' = IF r.error # "" THEN None ELSE Some(r.ret)
           /\ UNCHANGED <<config, self, types, idx, best_score, best_entity,
                          examined, skipped>>

(***************************************************************************)
(* connected                                                               *)
(***************************************************************************)
\* CaughtByConnected with a fault: except (Timeout, ConnectionError) alone
CaughtWithoutRequestException(e) == e = "Timeout" \/ e = "OSConnectionError"

\* except (Timeout, ConnectionError, RequestException): ConnectionError is
\* Python's builtin, which requests never raises; the requests exceptions
\* are caught as RequestException
CaughtByConnected(e) == e = "Timeout" \/ e = "OSConnectionError" \/ e \in RequestExceptions

Connected ==
    /\ pc = "idle"
    /\ \E net \in NetworkOutcomes({Some(c) : c \in Catalogs}) :
        LET req == GetStateRequest(self)
            x == get_state(net)
        IN /\ pc' = "done"
           /\ op' = "connected"
           /\ requests' = Issued(req, net)
           /\ reply' = Reply(net)
           /\ json_data' = IF x.error # "" THEN None ELSE x.body[1]
           /\ IF x.error = ""
              THEN outcome' = "return" /\ ret' = Some(TRUE) /\ error' = ""
              ELSE IF CaughtByConnected(x.error)
                   THEN outcome' = "return" /\ ret' = Some(FALSE) /\ error' = ""
                   ELSE outcome' = "raise" /\ ret' = None /\ error' = x.error
           /\ UNCHANGED <<config, self, entity, types, idx, best_score, best_entity,
                          examined, skipped>>

(***************************************************************************)
(* execute_service, find_component, engage_conversation                    *)
(***************************************************************************)
\* the arguments and the answers of the three calls
ServiceCalls == {<<"light", "turn_on", [entity_id |-> IdLightAb]>>}
Components == {"light", "conversation"}
ComponentLists == {<<>>, <<"light">>}
Texts == {"hello"}
ConversationReplies ==
    {[speech |-> [plain |-> "done"]], [speech |-> [ssml |-> "done"]], [text |-> "done"]}

ExecuteServiceRequest(client, domain, service, data) ==
    HttpRequest(client, "POST", <<"api", "services", domain, service>>, Some(data))

FindComponentRequest(client) == HttpRequest(client, "GET", <<"api", "components">>, None)

EngageConversationRequest(client, utterance) ==
    HttpRequest(client, "POST", <<"api", "conversation", "process">>,
                Some([text |-> utterance]))

\* the end of a call that scans nothing
Finish(o, req, net, x, value, err) ==
    /\ pc' = "done"
    /\ op' = o
    /\ requests' = Issued(req, net)
    /\ reply' = Reply(net)
    /\ outcome' = IF err # "" THEN "raise" ELSE "return"
    /\ error' = err
    /\ ret' = IF err # "" THEN None ELSE Some(value)
    /\ UNCHANGED <<config, self, entity, types, json_data, idx, best_score,
                   best_entity, examined, skipped>>

\* execute_service returns the response object
ExecuteService ==
    /\ pc = "idle"
    /\ \E call \in ServiceCalls, net \in NetworkOutcomes({Some("")}) :
        LET x == Exchange(net)
        IN Finish("execute_service",
                  ExecuteServiceRequest(self, call[1], call[2], call[3]), net, x,
                  [status_code |-> net.status], x.error)

\* component in req.json()
FindComponent ==
    /\ pc = "idle"
    /\ \E component \in Components, net \in NetworkOutcomes({Some(l) : l \in ComponentLists}) :
        LET x == Json(Exchange(net))
        IN Finish("find_component", FindComponentRequest(self), net, x,
                  x.error = "" /\ \E i \in 1..Len(x.body[1]) : x.body[1][i] = component,
                  x.error)

\* req.json()['speech']['plain']: a KeyError when the reply has another shape
EngageConversation ==
    /\ pc = "idle"
    /\ \E utterance \in Texts, net \in NetworkOutcomes({Some(r) : r \in ConversationReplies}) :
        LET x == Json(Exchange(net))
            ok == x.error = "" /\ Has(x.body[1], "speech") /\ Has(x.body[1].speech, "plain")
        IN Finish("engage_conversation", EngageConversationRequest(self, utterance), net, x,
                  IF ok THEN x.body[1].speech.plain ELSE "",
                  IF x.error # "" THEN x.error ELSE IF ok THEN "" ELSE "KeyError")

\* the caller has the result; the client, which keeps nothing of a call, is
\* ready for the next one
Return ==
    /\ pc = "done"
    /\ pc' = "idle"
    /\ op' = "none"
    /\ entity' = <<>>
    /\ types' = {}
    /\ json_data' = None
    /\ idx' = 1
    /\ best_score' = InitialBestScore
    /\ best_entity' = None
    /\ examined' = <<>>
    /\ skipped' = <<>>
    /\ requests' = <<>>
    /\ reply' = NoReply
    /\ outcome' = "none"
    /\ ret' = None
    /\ error' = ""
    /\ UNCHANGED <<config, self>>

Next ==
    \/ FindEntityCall
    \/ FindEntityStep
    \/ FindEntityReturn
    \/ FindEntityAttr
    \/ Connected
    \/ ExecuteService
    \/ FindComponent
    \/ EngageConversation
    \/ Return

Spec == Init /\ [][Next]_vars

(***************************************************************************)
(* Vocabulary of the properties, on the list the call fetched.             *)
(***************************************************************************)
\* find_entity has returned to its caller
FindEntityReturned == pc = "done" /\ op = "find_entity" /\ outcome = "return"
\* the call's request failed: a transport error or a status outside 2xx
RequestFailed ==
    reply.kind = "exception" \/ (reply.kind = "response" /\ (reply.status < 200 \/ reply.status > 299))
\* the last answer has a status raise_for_status raises on
ErrorStatus == reply.kind = "response" /\ raise_for_status(reply.status)
\* the call has its JSON: an answer without error status whose body decoded
Fetched == reply.kind = "response" /\ ~ErrorStatus /\ reply.json
\* find_entity_attr has ended, its fetch having succeeded
FindEntityAttrEnded == pc = "done" /\ op = "find_entity_attr" /\ Fetched

Indexes == 1..Len(json_data)
\* record i has an id whose domain is allowed
InAllowedDomain(i) ==
    Has(json_data[i], "entity_id") /\ SplitDotFirst(json_data[i].entity_id) \in types
\* record i has a friendly name
Named(i) == Has(json_data[i], "attributes") /\ Has(json_data[i].attributes, "friendly_name")
\* the two scores of record i
NameScore(i) == token_sort_ratio(entity, lower(json_data[i].attributes.friendly_name))
IdScore(i) == token_sort_ratio(entity, lower(json_data[i].entity_id))
TopScore(i) == IF NameScore(i) >= IdScore(i) THEN NameScore(i) ELSE IdScore(i)
\* record i was passed over after a KeyError
WasSkipped(i) == \E k \in 1..Len(skipped) : skipped[k] = i
\* the records of an allowed domain that were not skipped for a lookup
\* failure and have every field a candidate is built from
Kept ==
    {i \in Indexes : /\ InAllowedDomain(i) /\ Named(i) /\ Has(json_data[i], "state")
                     /\ ~WasSkipped(i)}

\* C1: find_entity returns none or a candidate whose recorded best_score is
\* above 50; the running best_entity of the scan is never one of score <= 50.
C1_ScoreAboveFloor ==
    /\ FindEntityReturned => (ret[1] = None \/ ret[1][1].best_score > 50)
    /\ pc = "scan" => (best_entity = None \/ best_entity[1].best_score > 50)

\* C1's case: a scan over a record of an allowed domain that scores exactly
\* 50 has returned none
C1_Witness ==
    /\ FindEntityReturned
    /\ ret[1] = None
    /\ \E i \in Kept : TopScore(i) = 50

\* C2: after the scan, if some record of an allowed domain that was not
\* skipped scores above 50 by name or by id, the result is a candidate whose
\* score is at least both scores of every such record; otherwise it is none.
C2_HighestScoreReturned ==
    FindEntityReturned =>
        IF \E i \in Kept : TopScore(i) > 50
        THEN ret[1] # None /\ \A i \in Kept : ret[1][1].best_score >= TopScore(i)
        ELSE ret[1] = None

\* C3: a KeyError in a record never reaches find_entity's caller, and the
\* loop runs on every record of the list, those after a skipped one included.
C3_SkipAndContinue ==
    /\ op = "find_entity" => error # "KeyError"
    /\ (pc = "done" /\ op = "find_entity" /\ Fetched) =>
          /\ outcome = "return"
          /\ examined = [i \in Indexes |-> i]

\* C3's case: a record was skipped for a KeyError and was not the last one
C3_Witness ==
    /\ FindEntityReturned
    /\ skipped # <<>>
    /\ skipped[1] < Len(json_data)

\* C9: the returned candidate is built from the first, in the server's order,
\* of the not-skipped records of an allowed domain that reach the maximum
\* score, when that maximum is above 50.
C9_FirstWins ==
    (FindEntityReturned /\ \E i \in Kept : TopScore(i) > 50) =>
            LET m == SetMax({TopScore(i) : i \in Kept})
                first == SetMin({i \in Kept : TopScore(i) = m})
            IN /\ ret[1] # None
               /\ ret[1][1].id = json_data[first].entity_id
               /\ ret[1][1].state = json_data[first].state
               /\ ret[1][1].attributes = json_data[first].attributes
               /\ ret[1][1].best_score = m

\* C10: find_entity returns none when no record's domain is in the allowed
\* set, and never returns a record of a domain outside it.
C10_OnlyAllowedDomains ==
    FindEntityReturned =>
        /\ (\A i \in Indexes : ~InAllowedDomain(i)) => ret[1] = None
        /\ ret[1] # None => SplitDotFirst(ret[1][1].id) \in types

\* C10's case: a record that scores above 50 was fetched, no record's domain
\* is allowed, and none was returned
C10_Witness ==
    /\ FindEntityReturned
    /\ ret[1] = None
    /\ \A i \in Indexes : ~InAllowedDomain(i)
    /\ \E i \in Indexes : Has(json_data[i], "entity_id") /\ Named(i) /\ TopScore(i) > 50

\* the records at which find_entity_attr's loop can end: one with the id
\* asked for, or one without entity_id
Stops ==
    {i \in Indexes : ~Has(json_data[i], "entity_id") \/ json_data[i].entity_id = entity}
\* the records with the id asked for
WithId == {i \in Indexes : Has(json_data[i], "entity_id") /\ json_data[i].entity_id = entity}
\* a record with every field find_entity_attr reads outside its try
Complete(r) ==
    /\ Has(r, "entity_id") /\ Has(r, "attributes") /\ Has(r, "state")
    /\ Has(r.attributes, "friendly_name")
\* the loop ends on no malformed record
EndsWell == Stops = {} \/ Complete(json_data[SetMin(Stops)])

\* the unit of a record: brightness when the id's domain is light,
\* unit_of_measurement otherwise, the empty string when it is missing
UnitOf(r) ==
    IF SplitDotFirst(r.entity_id) = DomLight
    THEN IF Has(r.attributes, "brightness") THEN r.attributes.brightness ELSE <<>>
    ELSE IF Has(r.attributes, "unit_of_measurement")
         THEN r.attributes.unit_of_measurement ELSE <<>>

\* the call returned none if no record has the id, and otherwise the summary
\* of the first record that has it
SummaryOfFirst ==
    /\ outcome = "return"
    /\ IF WithId = {} THEN ret[1] = None
       ELSE LET r == json_data[SetMin(WithId)]
            IN /\ ret[1] # None
               /\ ret[1][1].name = r.attributes.friendly_name
               /\ ret[1][1].state = r.state
               /\ ret[1][1].unit_measure = UnitOf(r)

\* C4, as claimed: a record lacking a field never makes find_entity_attr
\* fail with a lookup error to its caller.
C4_NeverKeyError == op = "find_entity_attr" => error # "KeyError"

\* C4, amended: find_entity_attr raises a KeyError to its caller exactly when
\* its loop ends on a malformed record (a record without entity_id before
\* any record with the id, or a first record with the id that lacks
\* attributes, friendly_name or state); a missing brightness or
\* unit_of_measurement alone never raises.
C4_KeyErrorCases ==
    FindEntityAttrEnded =>
        /\ error \in {"", "KeyError"}
        /\ (outcome = "raise") = (error = "KeyError")
        /\ (error = "KeyError") = ~EndsWell

\* C4's case: the first record with the id lacks a field, and the call has
\* ended with a KeyError
C4_Witness ==
    /\ FindEntityAttrEnded
    /\ error = "KeyError"
    /\ WithId # {}
    /\ SetMin(Stops) = SetMin(WithId)

\* C8, as claimed: none when no record has the id, otherwise the summary of
\* the first such record, with the unit of its domain or the empty string.
C8_ReadAttributes == FindEntityAttrEnded => SummaryOfFirst

\* C8, amended: when the loop ends on no malformed record, the call returns
\* none if no record has the id, and otherwise the summary of the first such
\* record: brightness for the light domain, unit_of_measurement otherwise,
\* the empty string when that attribute is missing.
C8_ReadAttributesWellFormed == (FindEntityAttrEnded /\ EndsWell) => SummaryOfFirst

\* C8's case: the first record with the id is a light that has a
\* unit_of_measurement and no brightness, and the unit returned is empty
C8_Witness ==
    /\ FindEntityAttrEnded
    /\ outcome = "return"
    /\ WithId # {}
    /\ SplitDotFirst(json_data[SetMin(WithId)].entity_id) = DomLight
    /\ Has(json_data[SetMin(WithId)].attributes, "unit_of_measurement")
    /\ ret[1][1].unit_measure = <<>>

\* C5 as stated: connected always returns a boolean: False when the fetch
\* failed with a transport error or an error status, True when it
\* succeeded, whatever the answer holds.
C5_ConnectedIsBoolean ==
    (pc = "done" /\ op = "connected") =>
        /\ outcome = "return"
        /\ error = ""
        /\ ret = Some(~RequestFailed)

\* C5: connected always returns a boolean: True when the last answer has no
\* error status and its body decoded as JSON, whatever the decoded value is;
\* False when the fetch failed with a transport error, too many redirects,
\* an error status or a body that is not JSON.
C5_ConnectedWhenDecoded ==
    (pc = "done" /\ op = "connected") =>
        /\ outcome = "return"
        /\ error = ""
        /\ ret = Some(Fetched)

\* C5's case: the server answered 200 with a body that is not JSON and
\* connected returned False
C5_Witness ==
    /\ pc = "done" /\ op = "connected"
    /\ reply.kind = "response" /\ reply.status = 200 /\ ~reply.json
    /\ ret = Some(FALSE)

\* C6: with TLS configured, every request is sent with the verification mode
\* of the configuration.
C6_VerifyAsConfigured ==
    config.ssl => \A k \in 1..Len(requests) : requests[k].verify = config.verify

\* the five calls that let an error reach their caller
Raising ==
    {"find_entity", "find_entity_attr", "execute_service", "find_component",
     "engage_conversation"}

\* C7 as stated: find_entity, find_entity_attr, execute_service,
\* find_component and engage_conversation put exactly one request on the
\* wire; when it fails with a transport error or a status outside 2xx the
\* call ends raising that error, with no result and no other request.
C7_OneRequestNoRetry ==
    op \in Raising =>
        /\ Len(requests) = 1
        /\ RequestFailed =>
              /\ pc = "done"
              /\ outcome = "raise"
              /\ ret = None
              /\ error = IF reply.kind = "exception" THEN reply.error ELSE "HTTPError"

\* C7: find_entity, find_entity_attr, execute_service, find_component and
\* engage_conversation make one get() or post() and never make it again: the
\* requests on the wire are the one the call built and, behind it, one
\* request to the Location for each redirect the library followed, at most
\* 30, with the verify and timeout of the first; when
\* the exchange fails with a transport error, too many redirects or a 4xx
\* or 5xx status the call ends raising that error, with no result.
C7_OneCallNoRetry ==
    op \in Raising =>
        /\ Len(requests) = 1 + reply.redirects
        /\ reply.redirects <= DEFAULT_REDIRECT_LIMIT
        /\ requests[1].method = IF op \in {"execute_service", "engage_conversation"}
                                THEN "POST" ELSE "GET"
        /\ \A k \in 2..Len(requests) :
              /\ requests[k].path = LocationPath
              /\ requests[k].verify = requests[1].verify
              /\ requests[k].timeout = requests[1].timeout
              /\ requests[k].method \in {"GET", requests[1].method}
        /\ (reply.kind = "exception" \/ ErrorStatus) =>
              /\ pc = "done"
              /\ outcome = "raise"
              /\ ret = None
              /\ error = IF reply.kind = "exception" THEN reply.error ELSE "HTTPError"

\* C7's case: a service call was redirected once with its POST kept, the
\* answer behind the redirect was an error status, and the call has ended
\* raising it with two requests on the wire
C7_Witness ==
    /\ pc = "done" /\ op = "execute_service"
    /\ reply.redirects = 1 /\ reply.status = 404
    /\ Len(requests) = 2 /\ requests[2].method = "POST"
    /\ outcome = "raise" /\ error = "HTTPError"

====
